---- MODULE Spec2Model ----
(***************************************************************************)
(* Model of the dual-source reconciliation and field-extraction engine of  *)
(* the Egyptian-ID OCR service (app/utils.py, app/core.py, app/main.py).   *)
(*                                                                         *)
(* A character is its Unicode code point, a Python str is the sequence of  *)
(* its code points, a Python list is a sequence.  Regular expressions are  *)
(* translated to operators on these sequences with the matching rules of   *)
(* Python's re module (leftmost match, greedy quantifiers).                *)
(***************************************************************************)
EXTENDS Integers, Sequences, FiniteSets, TLC

VARIABLES
    san, dup, bd, cid, ca,               \* one harness per pure function of utils.py
    pc, ocr, state, data, fault, ret, resp   \* one /analyze request (main.py, core.py)

harness == <<san, dup, bd, cid, ca>>

service == <<pc, ocr, state, data, fault, ret, resp>>

vars == <<san, dup, bd, cid, ca, pc, ocr, state, data, fault, ret, resp>>

(***************************************************************************)
(* Characters the code names                                               *)
(***************************************************************************)
SP == 32
HYPHEN == 45
TATWEEL == 1600
MEEM == 1605
QAF == 1602
KAF == 1603
ZERO == 48
ARABIC_ZERO == 1632

\* Python's None, kept apart from every str
None == <<-1>>

\* ['U+0645', 'U+0642', 'U+0643'] in the order the code lists them
possible_markers == <<MEEM, QAF, KAF>>

IsMarker(c) == c = MEEM \/ c = QAF \/ c = KAF

\* [0-9]
IsWesternDigit(c) == c >= 48 /\ c <= 57

\* [U+0660-U+0669], the Arabic-Indic digits
IsArabicDigit(c) == c >= 1632 /\ c <= 1641

\* [0-9U+0660-U+0669]: a digit of either script
IsDigit(c) == IsWesternDigit(c) \/ IsArabicDigit(c)

\* [U+0600-U+06FF]
IsArabic(c) == c >= 1536 /\ c <= 1791

\* [a-zA-Z]
IsLatin(c) == (c >= 97 /\ c <= 122) \/ (c >= 65 /\ c <= 90)

\* \s, and the characters str.split() splits on
IsSpace(c) ==
    \/ (c >= 9 /\ c <= 13) \/ (c >= 28 /\ c <= 32)
    \/ c \in {133, 160, 5760, 8232, 8233, 8239, 8287, 12288}
    \/ (c >= 8192 /\ c <= 8202)

\* [\-U+0640]
IsDash(c) == c = HYPHEN \/ c = TATWEEL

\* string.punctuation
IsPunct(c) ==
    \/ (c >= 33 /\ c <= 47) \/ (c >= 58 /\ c <= 64)
    \/ (c >= 91 /\ c <= 96) \/ (c >= 123 /\ c <= 126)

\* \w on the characters a sanitized address can hold (ASCII and the Arabic block)
IsWordChar(c) ==
    \/ IsWesternDigit(c) \/ IsLatin(c) \/ c = 95
    \/ (c >= 1568 /\ c <= 1610) \/ (c >= 1632 /\ c <= 1641)
    \/ (c >= 1646 /\ c <= 1647) \/ (c >= 1649 /\ c <= 1747) \/ c = 1749
    \/ (c >= 1765 /\ c <= 1766) \/ (c >= 1774 /\ c <= 1788) \/ c = 1791

(***************************************************************************)
(* str and list primitives                                                 *)
(***************************************************************************)
\* a local variable of the source, as sval and words of utils.py 96-97:
\* x = v, then F(x)
Let(v, F(_)) == F(v)

\* two local variables, as addr_t and addr_e of utils.py 188-189:
\* x = a, y = b, then F(x, y)
Let2(a, b, F(_, _)) == F(a, b)

Min(S) == CHOOSE x \in S : \A y \in S : x <= y

\* s[i:] with a 0-based i
From(s, i) == SubSeq(s, i + 1, Len(s))

\* s[i:j] with 0-based i, j
Slice(s, i, j) == SubSeq(s, i + 1, j)

\* the length of the longest prefix of s whose characters all satisfy P: what
\* a greedy  [class]*  matches at the head of s (utils.py 120, 151)
SpanLen(s, P(_)) == Min({i \in 1..(Len(s) + 1) : i = Len(s) + 1 \/ ~P(s[i])}) - 1

NotSpace(c) == ~IsSpace(c)

\* str.split(): the maximal runs of non-whitespace characters
RECURSIVE split(_)
split(s) ==
    IF s = <<>> THEN <<>>
    ELSE IF IsSpace(Head(s)) THEN split(Tail(s))
    ELSE Let(SpanLen(s, NotSpace), LAMBDA n : <<SubSeq(s, 1, n)>> \o split(From(s, n)))

\* sep.join(parts)
RECURSIVE join(_, _)
join(sep, parts) ==
    IF parts = <<>> THEN <<>>
    ELSE IF Len(parts) = 1 THEN parts[1]
    ELSE parts[1] \o sep \o join(sep, Tail(parts))

\* ' '.join(s.split())
collapse_spaces(s) == join(<<SP>>, split(s))

\* s.strip()
strip(s) ==
    Let({i \in 1..Len(s) : ~IsSpace(s[i])},
        LAMBDA keep : IF keep = {} THEN <<>>
                      ELSE SubSeq(s, Min(keep), CHOOSE i \in keep : \A j \in keep : j <= i))

\* needle in s: needle is a substring of s
Contains(s, needle) ==
    \E i \in 0..(Len(s) - Len(needle)) : Slice(s, i, i + Len(needle)) = needle

\* s.replace(old, new) for a non-empty old: leftmost, non-overlapping
RECURSIVE replace(_, _, _)
replace(s, old, new) ==
    IF Len(s) < Len(old) THEN s
    ELSE IF SubSeq(s, 1, Len(old)) = old
         THEN new \o replace(From(s, Len(old)), old, new)
         ELSE <<Head(s)>> \o replace(Tail(s), old, new)

\* sval or ""
or_empty(sval) == IF sval = None THEN <<>> ELSE sval

(***************************************************************************)
(* Script normalizer (utils.py 8-18)                                       *)
(***************************************************************************)
to_western_digits(sval) ==
    Let(or_empty(sval),
        LAMBDA s : [i \in 1..Len(s) |->
                      IF IsArabicDigit(s[i]) THEN s[i] - ARABIC_ZERO + ZERO ELSE s[i]])

to_arabic_digits(sval) ==
    Let(or_empty(sval),
        LAMBDA s : [i \in 1..Len(s) |->
                      IF IsWesternDigit(s[i]) THEN s[i] - ZERO + ARABIC_ZERO ELSE s[i]])

count_arabic_letters(sval) ==
    Let(or_empty(sval), LAMBDA s : Cardinality({i \in 1..Len(s) : IsArabic(s[i])}))

(***************************************************************************)
(* Sanitizer (utils.py 36-45)                                              *)
(***************************************************************************)
\* the four noise glyphs of line 38: U+061F ? > <
IsNoiseGlyph(c) == c \in {1567, 63, 62, 60}

\* the characters line 42 keeps
IsKept(c) == IsArabic(c) \/ IsDigit(c) \/ IsSpace(c) \/ IsDash(c)

\* lines 38-42: every noise glyph, Latin letter and character outside the
\* kept alphabet becomes one space
blank_garbage(s) ==
    [i \in 1..Len(s) |->
       IF IsNoiseGlyph(s[i]) \/ IsLatin(s[i]) \/ ~IsKept(s[i]) THEN SP ELSE s[i]]

\* the ordering slip: whitespace collapsed before the garbage is blanked
sanitize_addr_collapse_first(sval) == blank_garbage(collapse_spaces(or_empty(sval)))

sanitize_addr(sval) == collapse_spaces(blank_garbage(or_empty(sval)))

(***************************************************************************)
(* Duplicate-line collapser (utils.py 249-318)                             *)
(***************************************************************************)
\* re.split(r'\s+', s): the pieces between whitespace runs; a leading or a
\* trailing run leaves an empty piece
RECURSIVE re_split_ws(_)
re_split_ws(s) ==
    Let(SpanLen(s, NotSpace),
        LAMBDA n : IF n = Len(s) THEN <<s>>
                   ELSE Let(From(s, n),
                            LAMBDA rest : <<SubSeq(s, 1, n)>>
                                          \o re_split_ws(From(rest, SpanLen(rest, IsSpace)))))

\* lines 258-260: for each marker, "-m" becomes "- m" and then "U+0640m" becomes "U+0640 m"
RECURSIVE separate_dashes(_, _)
separate_dashes(s, k) ==
    IF k > Len(possible_markers) THEN s
    ELSE Let(possible_markers[k],
             LAMBDA m : separate_dashes(replace(replace(s, <<HYPHEN, m>>, <<HYPHEN, SP, m>>),
                                                <<TATWEEL, m>>, <<TATWEEL, SP, m>>),
                                        k + 1))

\* re.match(r'^[0-9U+0660-U+0669]+$', word)
IsNumberToken(word) == word # <<>> /\ \A i \in 1..Len(word) : IsDigit(word[i])

\* re.match(r'^([U+0645U+0642U+0643])([0-9U+0660-U+0669]+)$', word)
IsFusedToken(word) == Len(word) >= 2 /\ IsMarker(word[1]) /\ IsNumberToken(Tail(word))

\* word in ['U+0645', 'U+0642', 'U+0643']
IsMarkerToken(word) == Len(word) = 1 /\ IsMarker(word[1])

\* word in ['U+0645', 'U+0642', 'U+0643', '-', 'U+0640'] or a number
IsSkippedToken(word) ==
    IsMarkerToken(word) \/ word = <<HYPHEN>> \/ word = <<TATWEEL>> \/ IsNumberToken(word)

\* lines 268-303: the occurrences the walk records, in order; each is the key
\* it is filed under in word_positions and the position(s) (1-based) it holds
RECURSIVE track(_, _)
track(parts, i) ==
    IF i > Len(parts) THEN <<>>
    ELSE Let(parts[i],
             LAMBDA word :
                IF IsFusedToken(word)
                THEN <<[key |-> <<word[1], SP>> \o Tail(word), pos |-> {i}]>>
                     \o track(parts, i + 1)
                ELSE IF IsMarkerToken(word) /\ i + 1 <= Len(parts)
                        /\ IsNumberToken(parts[i + 1])
                THEN <<[key |-> word \o <<SP>> \o parts[i + 1], pos |-> {i, i + 1}]>>
                     \o track(parts, i + 2)
                ELSE IF IsSkippedToken(word) THEN track(parts, i + 1)
                ELSE <<[key |-> word, pos |-> {i}]>> \o track(parts, i + 1))

\* lines 306-314: every position of an occurrence that has a later occurrence
\* with the same key
positions_to_remove(parts) ==
    Let(track(parts, 1),
        LAMBDA occ : UNION {occ[j].pos : j \in {j \in 1..Len(occ) :
                                \E k \in (j + 1)..Len(occ) : occ[k].key = occ[j].key}})

\* line 317: parts without the removed positions
RECURSIVE without(_, _, _)
without(parts, removed, i) ==
    IF i > Len(parts) THEN <<>>
    ELSE (IF i \in removed THEN <<>> ELSE <<parts[i]>>) \o without(parts, removed, i + 1)

remove_cross_line_duplicates(address) ==
    IF address = None \/ address = <<>> \/ address = <<ZERO>> THEN address
    ELSE Let(re_split_ws(separate_dashes(address, 1)),
             LAMBDA parts :
                IF Len(parts) <= 1 THEN address
                ELSE join(<<SP>>, without(parts, positions_to_remove(parts), 1)))

(***************************************************************************)
(* Python int and datetime                                                 *)
(***************************************************************************)
\* \d, and the characters int() reads as digits: ASCII, Arabic-Indic and
\* extended Arabic-Indic decimal digits
IsDecimal(c) == IsWesternDigit(c) \/ IsArabicDigit(c) \/ (c >= 1776 /\ c <= 1785)

\* the value of a decimal digit character
digit_value(c) ==
    IF IsWesternDigit(c) THEN c - 48 ELSE IF IsArabicDigit(c) THEN c - 1632 ELSE c - 1776

\* re.sub(r'\D', '', s)
RECURSIVE only_decimals(_)
only_decimals(s) ==
    IF s = <<>> THEN <<>>
    ELSE (IF IsDecimal(Head(s)) THEN <<Head(s)>> ELSE <<>>) \o only_decimals(Tail(s))

\* str(int(s)) for a non-empty run of decimal digits s: a Python int is kept
\* as its decimal numeral, ASCII digits without leading zeros
RECURSIVE drop_leading_zeros(_)
drop_leading_zeros(s) ==
    IF Len(s) > 1 /\ Head(s) = ZERO THEN drop_leading_zeros(Tail(s)) ELSE s

int(s) == drop_leading_zeros([i \in 1..Len(s) |-> digit_value(s[i]) + ZERO])

\* int(s) as a number, for the two-digit fields of a date
int2(s) == 10 * digit_value(s[1]) + digit_value(s[2])

\* datetime's calendar: _is_leap and _days_in_month
is_leap(year) == year % 4 = 0 /\ (year % 100 # 0 \/ year % 400 = 0)

days_in_month(year, month) ==
    IF month = 2 THEN (IF is_leap(year) THEN 29 ELSE 28)
    ELSE IF month \in {4, 6, 9, 11} THEN 30 ELSE 31

\* datetime(year, month, day) raises ValueError unless this holds
datetime_ok(year, month, day) ==
    /\ year >= 1 /\ year <= 9999
    /\ month >= 1 /\ month <= 12
    /\ day >= 1 /\ day <= days_in_month(year, month)

\* n as k decimal digits, zero padded
RECURSIVE zero_pad(_, _)
zero_pad(n, k) == IF k = 0 THEN <<>> ELSE zero_pad(n \div 10, k - 1) \o <<ZERO + (n % 10)>>

\* dt.strftime('%Y-%m-%d')
strftime_ymd(year, month, day) ==
    zero_pad(year, 4) \o <<HYPHEN>> \o zero_pad(month, 2) \o <<HYPHEN>> \o zero_pad(day, 2)

(***************************************************************************)
(* Birth-date deriver (utils.py 320-344)                                   *)
(***************************************************************************)
\* the value a call ends with when an exception leaves it
Raised == <<-2>>

\* lines 329-343 without the try/except: the ValueError leaves the call
date_or_raise(year, month, day) ==
    IF datetime_ok(year, month, day) THEN strftime_ymd(year, month, day) ELSE Raised

\* lines 329-333 and 339-343: the date, "0" when datetime() raises
date_or_zero(year, month, day) ==
    IF datetime_ok(year, month, day) THEN strftime_ymd(year, month, day) ELSE <<ZERO>>

\* id_value is str(id_value); now_year is datetime.now().year
extract_birthdate_from_id(id_value, now_year) ==
    Let(only_decimals(to_western_digits(id_value)),
        LAMBDA digits :
           IF Len(digits) < 7 THEN <<ZERO>>
           ELSE IF digits[1] \in {50, 51}
           THEN LET century == IF digits[1] = 50 THEN 1900 ELSE 2000
                    yy == int2(Slice(digits, 1, 3))
                    mm == int2(Slice(digits, 3, 5))
                    dd == int2(Slice(digits, 5, 7))
                IN date_or_zero(century + yy, mm, dd)
           ELSE IF Len(digits) >= 6
           THEN LET yy == int2(Slice(digits, 0, 2))
                    mm == int2(Slice(digits, 2, 4))
                    dd == int2(Slice(digits, 4, 6))
                    century == IF yy <= now_year % 100 THEN 2000 ELSE 1900
                IN date_or_zero(century + yy, mm, dd)
           ELSE <<ZERO>>)

(***************************************************************************)
(* Identifier cleaner (utils.py 346-361)                                   *)
(***************************************************************************)
\* the 28 letters of the list ar (line 347)
IsArLetter(c) ==
    \/ (c >= 1575 /\ c <= 1576) \/ (c >= 1578 /\ c <= 1594)
    \/ (c >= 1601 /\ c <= 1608) \/ c = 1610

\* lines 350-352: every character of ar or string.punctuation is deleted
RECURSIVE strip_letters_punct(_)
strip_letters_punct(s) ==
    IF s = <<>> THEN <<>>
    ELSE (IF IsArLetter(Head(s)) \/ IsPunct(Head(s)) THEN <<>> ELSE <<Head(s)>>)
         \o strip_letters_punct(Tail(s))

\* re.findall(r'[\u0660-\u0669]+', s): the maximal runs of Arabic-Indic digits
RECURSIVE arabic_digit_runs(_)
arabic_digit_runs(s) ==
    IF s = <<>> THEN <<>>
    ELSE IF ~IsArabicDigit(Head(s)) THEN arabic_digit_runs(Tail(s))
    ELSE Let(SpanLen(s, IsArabicDigit),
             LAMBDA n : <<SubSeq(s, 1, n)>> \o arabic_digit_runs(From(s, n)))

\* list.reverse()
reverse(l) == [i \in 1..Len(l) |-> l[Len(l) + 1 - i]]

\* line 355 left out: the runs joined in reading order
matches_in_order(l) == l

\* line 355
reversed_matches(l) == reverse(l)

\* the int returned, as its decimal numeral
clean_id(id_val) ==
    Let(strip_letters_punct(id_val),
        LAMBDA s_val :
           Let2(join(<<>>, reversed_matches(arabic_digit_runs(s_val))), only_decimals(s_val),
                LAMBDA concatenated_string, digits_only :
                   IF concatenated_string # <<>> THEN int(to_western_digits(concatenated_string))
                   ELSE IF digits_only # <<>> THEN int(digits_only)
                   ELSE <<ZERO>>))

(***************************************************************************)
(* Locality extraction used by the reconciler (utils.py 88-125)            *)
(***************************************************************************)
\* the 27 names of lines 90-95, in order
known_cities ==
    <<
        <<1575, 1603, 1578, 1608, 1576, 1585>>,
        <<54, 32, 1575, 1603, 1578, 1608, 1576, 1585>>,
        <<1575, 1604, 1602, 1575, 1607, 1585, 1577>>,
        <<1575, 1604, 1580, 1610, 1586, 1577>>,
        <<1575, 1604, 1575, 1587, 1603, 1606, 1583, 1585, 1610, 1577>>,
        <<1575, 1604, 1575, 1587, 1605, 1575, 1593, 1610, 1604, 1610, 1577>>,
        <<1576, 1608, 1585, 1587, 1593, 1610, 1583>>,
        <<1575, 1604, 1587, 1608, 1610, 1587>>,
        <<1575, 1604, 1605, 1606, 1589, 1608, 1585, 1577>>,
        <<1591, 1606, 1591, 1575>>,
        <<1575, 1604, 1586, 1602, 1575, 1586, 1610, 1602>>,
        <<1575, 1587, 1610, 1608, 1591>>,
        <<1575, 1604, 1601, 1610, 1608, 1605>>,
        <<1576, 1606, 1607, 1575>>,
        <<1583, 1605, 1610, 1575, 1591>>,
        <<1575, 1587, 1608, 1575, 1606>>,
        <<1575, 1604, 1575, 1602, 1589, 1585>>,
        <<1602, 1606, 1575>>,
        <<1587, 1608, 1607, 1575, 1580>>,
        <<1575, 1604, 1605, 1606, 1610, 1575>>,
        <<1603, 1601, 1585, 32, 1575, 1604, 1588, 1610, 1582>>,
        <<1575, 1604, 1583, 1602, 1607, 1604, 1610, 1577>>,
        <<1575, 1604, 1588, 1585, 1602, 1610, 1577>>,
        <<1575, 1604, 1594, 1585, 1576, 1610, 1577>>,
        <<1575, 1604, 1602, 1604, 1610, 1608, 1576, 1610, 1577>>,
        <<1575, 1604, 1576, 1581, 1610, 1585, 1577>>,
        <<1605, 1591, 1585, 1608, 1581>>
    >>

\* line 102: city in word or word in city, for some known city
names_city(word) ==
    \E k \in 1..Len(known_cities) :
        Contains(word, known_cities[k]) \/ Contains(known_cities[k], word)

\* ' '.join(words[i:]) with a 0-based i
join_from(words, i) == join(<<SP>>, From(words, i))

extract_city_district(sval) ==
    Let(split(sanitize_addr(sval)),
        LAMBDA words :
           Let({i \in 1..Len(words) : names_city(words[i])},
               LAMBDA hits :
                  IF hits # {} THEN join_from(words, Min(hits) - 1)
                  ELSE IF Len(words) >= 2 THEN join_from(words, Len(words) - 2)
                  ELSE IF Len(words) = 1 THEN words[1]
                  ELSE <<>>))

\* \b at the 0-based offset i of s: exactly one side is a word character
word_boundary(s, i) ==
    LET before == i >= 1 /\ IsWordChar(s[i])
        after == i < Len(s) /\ IsWordChar(s[i + 1])
    IN before # after

\* [\-\u0640:]
IsSeparator(c) == IsDash(c) \/ c = 58

\* the length of  \s*[\-\u0640:]?\s*  matched greedily at the head of s
gap_len(s) ==
    Let(SpanLen(s, IsSpace),
        LAMBDA a : Let(IF a < Len(s) /\ IsSeparator(s[a + 1]) THEN a + 1 ELSE a,
                       LAMBDA b : b + SpanLen(From(s, b), IsSpace)))

\* the length of the match of  \b[mqk]\s*[\-\u0640:]?\s*[0-9\u0660-\u0669]+
\* at the 0-based offset i of s, 0 when it does not match there
marker_number_at(s, i) ==
    IF ~(i < Len(s) /\ IsMarker(s[i + 1]) /\ word_boundary(s, i)) THEN 0
    ELSE Let(From(s, i + 1),
             LAMBDA rest :
                Let(gap_len(rest),
                    LAMBDA g : Let(SpanLen(From(rest, g), IsDigit),
                                   LAMBDA n : IF n = 0 THEN 0 ELSE 1 + g + n)))

\* the same for  \b[0-9\u0660-\u0669]+\b
number_at(s, i) ==
    Let(SpanLen(From(s, i), IsDigit),
        LAMBDA n : IF n > 0 /\ word_boundary(s, i) /\ word_boundary(s, i + n) THEN n ELSE 0)

\* the same for  \b[mqk]\b
marker_at(s, i) ==
    IF i < Len(s) /\ IsMarker(s[i + 1]) /\ word_boundary(s, i) /\ word_boundary(s, i + 1)
    THEN 1 ELSE 0

\* the same for  [\-\u0640]+
dashes_at(s, i) == SpanLen(From(s, i), IsDash)

\* re.sub(pattern, ' ', s) where the pattern's match at offset i has length
\* len_at[i + 1]: matches are taken left to right and do not overlap
RECURSIVE sub_space(_, _, _)
sub_space(s, len_at, i) ==
    IF i >= Len(s) THEN <<>>
    ELSE Let(len_at[i + 1],
             LAMBDA n : IF n > 0 THEN <<SP>> \o sub_space(s, len_at, i + n)
                        ELSE <<s[i + 1]>> \o sub_space(s, len_at, i + 1))

sub_marker_numbers(s) == sub_space(s, [i \in 1..Len(s) |-> marker_number_at(s, i - 1)], 0)
sub_numbers(s) == sub_space(s, [i \in 1..Len(s) |-> number_at(s, i - 1)], 0)
sub_markers(s) == sub_space(s, [i \in 1..Len(s) |-> marker_at(s, i - 1)], 0)
sub_dashes(s) == sub_space(s, [i \in 1..Len(s) |-> dashes_at(s, i - 1)], 0)

extract_area_name(sval, city) ==
    Let(sanitize_addr(sval),
        LAMBDA s0 :
           Let(IF city # <<>> THEN replace(s0, city, <<SP>>) ELSE s0,
               LAMBDA s1 :
                  strip(collapse_spaces(
                      sub_dashes(sub_markers(sub_numbers(sub_marker_numbers(s1))))))))

(***************************************************************************)
(* Marker/number extractor (utils.py 149-184)                              *)
(***************************************************************************)
\* [\s\-\u0640]
IsLead(c) == IsSpace(c) \/ IsDash(c)

\* the 0-based offsets q of s that hold marker after  (?:^|[\s\-\u0640])
anchored_markers(s, marker) ==
    {q \in 0..(Len(s) - 1) : s[q + 1] = marker /\ (q = 0 \/ IsLead(s[q]))}

\* the first min(n, Len(s)) characters of s
take(s, n) == SubSeq(s, 1, IF n < Len(s) THEN n ELSE Len(s))

\* group 1 of  marker\s*[\-\u0640:]?\s*([0-9\u0660-\u0669]{1,3})  with marker at offset q,
\* <<>> when the pattern does not match there
number_after(s, q) ==
    Let(From(s, q + 1),
        LAMBDA rest :
           Let(From(rest, gap_len(rest)),
               LAMBDA tail : Let(SpanLen(tail, IsDigit),
                                 LAMBDA n : take(tail, IF n < 3 THEN n ELSE 3))))

extract_marker_number(sval, marker) ==
    Let(sanitize_addr(sval),
        LAMBDA s :
           Let({q \in anchored_markers(s, marker) : number_after(s, q) # <<>>},
               LAMBDA hits : IF hits = {} THEN <<>> ELSE number_after(s, Min(hits))))

\* re.finditer(r'[0-9\u0660-\u0669]{2,3}', s) from offset i: <<start, text>> of each match
RECURSIVE digit_groups(_, _)
digit_groups(s, i) ==
    IF i >= Len(s) THEN <<>>
    ELSE Let(SpanLen(From(s, i), IsDigit),
             LAMBDA n :
                IF n >= 2
                THEN Let(IF n < 3 THEN n ELSE 3,
                         LAMBDA k : <<(<<i, Slice(s, i, i + k)>>)>> \o digit_groups(s, i + k))
                ELSE digit_groups(s, i + 1))

abs(n) == IF n < 0 THEN -n ELSE n

\* line 159: the characters of the str ' \-\u0640' : space, backslash, hyphen, tatweel
IsLeadLiteral(c) == c \in {SP, 92, HYPHEN, TATWEEL}

\* lines 164-170: the text of the group whose start is nearest to marker_idx;
\* dist < best[0] keeps the first of the nearest groups
nearest(groups, marker_idx) ==
    groups[CHOOSE j \in 1..Len(groups) :
              \A k \in 1..Len(groups) :
                 \/ abs(groups[j][1] - marker_idx) < abs(groups[k][1] - marker_idx)
                 \/ /\ abs(groups[j][1] - marker_idx) = abs(groups[k][1] - marker_idx)
                    /\ j <= k][2]

closest_number_after_marker(sval, marker) ==
    Let(sanitize_addr(sval),
        LAMBDA s :
           \* the first match of  (?:^|[\s\-\u0640])marker(?:[\s\-\u0640]|$)
           Let2({q \in anchored_markers(s, marker) : q + 1 = Len(s) \/ IsLead(s[q + 2])},
                digit_groups(s, 0),
                LAMBDA hits, groups :
                   IF hits = {} \/ groups = <<>> THEN <<>>
                   ELSE \* match.start(): the marker's own offset when ^ matched,
                        \* else the one before
                        Let(IF Min(hits) = 0 THEN 0 ELSE Min(hits) - 1,
                            LAMBDA start :
                               nearest(groups,
                                       start + (IF IsLeadLiteral(s[start + 1]) THEN 1 ELSE 0)))))

\* [x for x in l if P(x)]
RECURSIVE of_length(_, _)
of_length(l, n) ==
    IF l = <<>> THEN <<>>
    ELSE (IF Len(Head(l)) = n THEN <<Head(l)>> ELSE <<>>) \o of_length(Tail(l), n)

RECURSIVE other_than(_, _)
other_than(l, x) ==
    IF l = <<>> THEN <<>>
    ELSE (IF Head(l) # x THEN <<Head(l)>> ELSE <<>>) \o other_than(Tail(l), x)

best_number(num_t, num_e, all_digits_t, all_digits_e) ==
    IF num_t = <<>> /\ num_e = <<>> THEN <<>>
    ELSE LET \* sorted(..., key=len, reverse=True) is stable: num_t leads a tie
             best == IF num_t = <<>> THEN num_e
                     ELSE IF num_e = <<>> THEN num_t
                     ELSE IF Len(num_e) > Len(num_t) THEN num_e ELSE num_t
             singles == other_than(of_length(all_digits_t \o all_digits_e, 1), best)
         IN IF Len(best) >= 2 THEN best
            ELSE IF singles # <<>> THEN best \o singles[1]
            ELSE best

(***************************************************************************)
(* Cross-source reconciler (utils.py 186-247)                              *)
(***************************************************************************)
\* [to_western_digits(x) for x in re.findall(r'[0-9\u0660-\u0669]+', s)]
RECURSIVE all_digit_runs(_)
all_digit_runs(s) ==
    IF s = <<>> THEN <<>>
    ELSE IF ~IsDigit(Head(s)) THEN all_digit_runs(Tail(s))
    ELSE Let(SpanLen(s, IsDigit),
             LAMBDA n : <<to_western_digits(SubSeq(s, 1, n))>> \o all_digit_runs(From(s, n)))

\* x or y
or_else(x, y) == IF x # <<>> THEN x ELSE y

\* lines 222-228: a one-digit best gives way to the last two-digit run of
\* either source
keep_number(best, twos) ==
    IF Len(best) = 1 /\ twos # <<>> THEN to_arabic_digits(twos[Len(twos)])
    ELSE to_arabic_digits(best)

\* lines 208-228 for one marker: the number kept for it, <<>> when the marker
\* is skipped
marker_number(addr_t, addr_e, marker) ==
    Let2(extract_marker_number(addr_t, marker), extract_marker_number(addr_e, marker),
         LAMBDA m_t, m_e :
            IF m_t = <<>> /\ m_e = <<>> THEN <<>>
            ELSE Let2(closest_number_after_marker(addr_t, marker),
                      closest_number_after_marker(addr_e, marker),
                      LAMBDA m2_t, m2_e :
                         Let2(all_digit_runs(addr_t), all_digit_runs(addr_e),
                              LAMBDA all_t, all_e :
                                 keep_number(best_number(to_western_digits(or_else(m2_t, m_t)),
                                                         to_western_digits(or_else(m2_e, m_e)),
                                                         all_t, all_e),
                                             of_length(all_t \o all_e, 2)))))

\* lines 204-228: the dict markers as its items, in insertion order
RECURSIVE collect_markers(_, _, _)
collect_markers(addr_t, addr_e, k) ==
    IF k > Len(possible_markers) THEN <<>>
    ELSE Let(marker_number(addr_t, addr_e, possible_markers[k]),
             LAMBDA number :
                (IF number # <<>> THEN <<(<<possible_markers[k], number>>)>> ELSE <<>>)
                \o collect_markers(addr_t, addr_e, k + 1))

\* line 207 with break for continue at line 212: the loop ends at the first
\* glyph that neither source follows by a number
RECURSIVE collect_markers_until_miss(_, _, _, _)
collect_markers_until_miss(order, addr_t, addr_e, k) ==
    IF k > Len(order) THEN <<>>
    ELSE Let(marker_number(addr_t, addr_e, order[k]),
             LAMBDA number :
                IF number = <<>> THEN <<>>
                ELSE <<(<<order[k], number>>)>>
                     \o collect_markers_until_miss(order, addr_t, addr_e, k + 1))

\* lines 204-228 with the list of line 205 given as order: the loop of line
\* 207 visits the glyphs as the list gives them, and the dict keeps its items
\* in the order they were inserted
RECURSIVE collect_markers_in(_, _, _, _)
collect_markers_in(order, addr_t, addr_e, k) ==
    IF k > Len(order) THEN <<>>
    ELSE Let(marker_number(addr_t, addr_e, order[k]),
             LAMBDA number :
                (IF number # <<>> THEN <<(<<order[k], number>>)>> ELSE <<>>)
                \o collect_markers_in(order, addr_t, addr_e, k + 1))

\* f"{k} {v}" of each item
RECURSIVE marker_texts(_)
marker_texts(items) ==
    IF items = <<>> THEN <<>>
    ELSE <<(<<items[1][1], SP>> \o items[1][2])>> \o marker_texts(Tail(items))

\* re.sub(r'[a-zA-Z]', '', s)
RECURSIVE drop_latin(_)
drop_latin(s) ==
    IF s = <<>> THEN <<>>
    ELSE (IF IsLatin(Head(s)) THEN <<>> ELSE <<Head(s)>>) \o drop_latin(Tail(s))

\* lines 244-246
final_cleanup(result) ==
    Let(drop_latin(result),
        LAMBDA r : collapse_spaces([i \in 1..Len(r) |-> IF IsKept(r[i]) THEN r[i] ELSE SP]))

\* lines 194-196
choose_city(addr_t, addr_e) ==
    Let2(extract_city_district(addr_t), extract_city_district(addr_e),
         LAMBDA city_t, city_e :
            IF count_arabic_letters(city_t) >= count_arabic_letters(city_e)
            THEN city_t ELSE city_e)

\* lines 199-201
choose_area(addr_t, addr_e, city) ==
    Let2(extract_area_name(addr_t, city), extract_area_name(addr_e, city),
         LAMBDA area_t, area_e :
            IF count_arabic_letters(area_t) >= count_arabic_letters(area_e)
            THEN area_t ELSE area_e)

\* lines 230-247.  Lines 233-241 write the one, two and three marker forms
\* apart; each is the items joined by ' -'
assemble(area, city, markers, addr_t, addr_e) ==
    LET marker_str == join(<<SP, HYPHEN>>, marker_texts(markers))
        result ==
            IF Len(markers) = 0
            THEN or_else(or_else(strip(area \o <<SP>> \o city), addr_e), addr_t)
            ELSE strip(area \o <<SP>> \o marker_str \o <<SP>> \o city)
    IN final_cleanup(result)

\* lines 193-247, for sanitized addr_t and addr_e that are not both empty
build_address(addr_t, addr_e) ==
    Let(choose_city(addr_t, addr_e),
        LAMBDA city : assemble(choose_area(addr_t, addr_e, city), city,
                               collect_markers(addr_t, addr_e, 1), addr_t, addr_e))

\* the early return of line 190 left out
no_sentinel_check(addr_t, addr_e) == FALSE

\* line 190: both sanitized sources are empty
both_empty(addr_t, addr_e) == addr_t = <<>> /\ addr_e = <<>>

choose_address(addr_tesseract, addr_easyocr) ==
    Let2(sanitize_addr(addr_tesseract), sanitize_addr(addr_easyocr),
         LAMBDA addr_t, addr_e :
            IF both_empty(addr_t, addr_e) THEN <<ZERO>> ELSE build_address(addr_t, addr_e))

(***************************************************************************)
(* Harnesses of the pure functions: Init draws the argument, the actions   *)
(* apply the function.  A harness that is not running is Idle.             *)
(***************************************************************************)
Idle == [pc |-> "idle"]

\* no request is being served
ServiceIdle ==
    /\ pc = "idle" /\ ocr = Idle /\ state = 0 /\ data = Idle /\ fault = "none"
    /\ ret = Idle /\ resp = Idle

\* every str over alphabet of length at most n
Strings(alphabet, n) == UNION {[1..k -> alphabet] : k \in 0..n}

\* every list over pool of length at most n
Lists(pool, n) == UNION {[1..k -> pool] : k \in 0..n}

----------------------------------------------------------------------------
\* sanitize_addr applied once and then to its own result
MaxSanLen == 3

\* \u061F > a space tab - tatweel ba 5 and the Arabic-Indic 5
SanAlphabet == {1567, 62, 97, 32, 9, 45, 1600, 1576, 53, 1637}

InitSanitize ==
    /\ san \in {[pc |-> "start", sval |-> s, once |-> None, twice |-> None] :
                  s \in Strings(SanAlphabet, MaxSanLen) \cup {None}}
    /\ dup = Idle /\ bd = Idle /\ cid = Idle /\ ca = Idle
    /\ ServiceIdle

Sanitize ==
    /\ san.pc = "start"
    /\ san' = [san EXCEPT !.pc = "once", !.once = sanitize_addr(san.sval)]
    /\ UNCHANGED <<dup, bd, cid, ca>>
    /\ UNCHANGED service

SanitizeAgain ==
    /\ san.pc = "once"
    /\ san' = [san EXCEPT !.pc = "twice", !.twice = sanitize_addr(san.once)]
    /\ UNCHANGED <<dup, bd, cid, ca>>
    /\ UNCHANGED service

NextSanitize == Sanitize \/ SanitizeAgain

SpecSanitize == InitSanitize /\ [][NextSanitize]_vars

----------------------------------------------------------------------------
\* remove_cross_line_duplicates applied once and then to its own result
MaxTokens == 4

\* alef, ba, meem, qaf, Arabic-Indic 5, meem fused with 5, a dash, a dash
\* fused with meem
DupTokens ==
    {<<1575>>, <<1576>>, <<MEEM>>, <<QAF>>, <<1637>>, <<MEEM, 1637>>, <<HYPHEN>>,
     <<HYPHEN, MEEM>>}

InitCollapse ==
    /\ dup \in {[pc |-> "start", address |-> join(<<SP>>, t), once |-> None, twice |-> None] :
                  t \in Lists(DupTokens, MaxTokens)}
    /\ san = Idle /\ bd = Idle /\ cid = Idle /\ ca = Idle
    /\ ServiceIdle

Collapse ==
    /\ dup.pc = "start"
    /\ dup' = [dup EXCEPT !.pc = "once", !.once = remove_cross_line_duplicates(dup.address)]
    /\ UNCHANGED <<san, bd, cid, ca>>
    /\ UNCHANGED service

CollapseAgain ==
    /\ dup.pc = "once"
    /\ dup' = [dup EXCEPT !.pc = "twice", !.twice = remove_cross_line_duplicates(dup.once)]
    /\ UNCHANGED <<san, bd, cid, ca>>
    /\ UNCHANGED service

NextCollapse == Collapse \/ CollapseAgain

SpecCollapse == InitCollapse /\ [][NextCollapse]_vars

----------------------------------------------------------------------------
\* extract_birthdate_from_id on identifiers [marker] yy mm dd [serial]
MaxSerial == 2

\* the identifier is read in either digit script.  Its digits are an optional
\* century marker 2 or 3, then yy, mm, dd (valid and invalid ones), then the
\* serial digits: none, a few, or the seven of a full 14-digit identifier
BirthIds ==
    LET prefixes == {<<>>, <<50>>, <<51>>}
        years == {<<48, 48>>, <<48, 52>>, <<50, 54>>, <<50, 55>>, <<56, 53>>, <<57, 48>>}
        months == {<<48, 48>>, <<48, 49>>, <<48, 50>>, <<48, 52>>, <<49, 50>>, <<49, 51>>}
        days == {<<48, 48>>, <<48, 49>>, <<50, 56>>, <<50, 57>>, <<51, 48>>, <<51, 49>>,
                 <<51, 50>>}
        serials == {SubSeq(<<48, 49, 50, 51, 52, 53, 54>>, 1, k) : k \in (0..MaxSerial) \cup {7}}
        western == {p \o y \o m \o d \o x : p \in prefixes, y \in years,
                      m \in months, d \in days, x \in serials}
    IN western \cup {to_arabic_digits(w) : w \in western}

\* datetime.now().year
NowYears == {2026, 2085}

InitBirthdate ==
    /\ bd \in {[pc |-> "start", id_value |-> i, now_year |-> y, birthdate |-> None] :
                 i \in BirthIds, y \in NowYears}
    /\ san = Idle /\ dup = Idle /\ cid = Idle /\ ca = Idle
    /\ ServiceIdle

DeriveBirthdate ==
    /\ bd.pc = "start"
    /\ bd' = [bd EXCEPT !.pc = "done",
                        !.birthdate = extract_birthdate_from_id(bd.id_value, bd.now_year)]
    /\ UNCHANGED <<san, dup, cid, ca>>
    /\ UNCHANGED service

NextBirthdate == DeriveBirthdate

SpecBirthdate == InitBirthdate /\ [][NextBirthdate]_vars

----------------------------------------------------------------------------
\* clean_id on raw identifier strings
MaxIdLen == 4

\* Arabic-Indic 0 1 2, space, hyphen, ba (in ar), teh marbuta (not in ar), 5
IdAlphabet == {1632, 1633, 1634, 32, 45, 1576, 1577, 53}

InitCleanId ==
    /\ cid \in {[pc |-> "start", id_val |-> s, id |-> None] : s \in Strings(IdAlphabet, MaxIdLen)}
    /\ san = Idle /\ dup = Idle /\ bd = Idle /\ ca = Idle
    /\ ServiceIdle

CleanId ==
    /\ cid.pc = "start"
    /\ cid' = [cid EXCEPT !.pc = "done", !.id = clean_id(cid.id_val)]
    /\ UNCHANGED <<san, dup, bd, ca>>
    /\ UNCHANGED service

NextCleanId == CleanId

SpecCleanId == InitCleanId /\ [][NextCleanId]_vars

----------------------------------------------------------------------------
\* choose_address, statement by statement
MaxWords == 2

\* meem, qaf, Arabic-Indic 5, "12", the words nasr and qena (a known city),
\* the noise glyph > and a dash
CaWords ==
    {<<MEEM>>, <<QAF>>, <<1637>>, <<49, 50>>, <<1606, 1589, 1585>>, <<1602, 1606, 1575>>,
     <<62>>, <<HYPHEN>>}

\* what the general engine read: nothing, noise, or an address line
CaTesseract ==
    {None, <<>>, <<63, SP>>, <<1606, 1589, 1585>>,
     <<1606, 1589, 1585, SP, MEEM, SP, 1639>>,
     <<QAF, HYPHEN, 51, SP, 1602, 1606, 1575>>}

CaEasyocr == {join(<<SP>>, w) : w \in Lists(CaWords, MaxWords)}

InitChoose ==
    /\ ca \in {[pc |-> "call", addr_tesseract |-> a, addr_easyocr |-> b, addr_t |-> None,
                addr_e |-> None, city |-> None, area |-> None, markers |-> <<>>,
                ran |-> {}, result |-> None] : a \in CaTesseract, b \in CaEasyocr}
    /\ san = Idle /\ dup = Idle /\ bd = Idle /\ cid = Idle
    /\ ServiceIdle

\* lines 188-189
ChooseSanitize ==
    /\ ca.pc = "call"
    /\ ca' = [ca EXCEPT !.pc = "sanitized", !.addr_t = sanitize_addr(ca.addr_tesseract),
                        !.addr_e = sanitize_addr(ca.addr_easyocr)]
    /\ UNCHANGED <<san, dup, bd, cid>>
    /\ UNCHANGED service

\* lines 190-191
ChooseSentinel ==
    /\ ca.pc = "sanitized"
    /\ both_empty(ca.addr_t, ca.addr_e)
    /\ ca' = [ca EXCEPT !.pc = "returned", !.result = <<ZERO>>]
    /\ UNCHANGED <<san, dup, bd, cid>>
    /\ UNCHANGED service

\* lines 194-201
ChooseLocality ==
    /\ ca.pc = "sanitized"
    /\ ~both_empty(ca.addr_t, ca.addr_e)
    /\ LET city == choose_city(ca.addr_t, ca.addr_e)
       IN ca' = [ca EXCEPT !.pc = "locality", !.city = city,
                           !.area = choose_area(ca.addr_t, ca.addr_e, city),
                           !.ran = @ \cup {"locality"}]
    /\ UNCHANGED <<san, dup, bd, cid>>
    /\ UNCHANGED service

\* lines 204-228
ChooseMarkers ==
    /\ ca.pc = "locality"
    /\ ca' = [ca EXCEPT !.pc = "markers", !.markers = collect_markers(ca.addr_t, ca.addr_e, 1),
                        !.ran = @ \cup {"markers"}]
    /\ UNCHANGED <<san, dup, bd, cid>>
    /\ UNCHANGED service

\* lines 230-247
ChooseAssemble ==
    /\ ca.pc = "markers"
    /\ ca' = [ca EXCEPT !.pc = "returned",
                        !.result = assemble(ca.area, ca.city, ca.markers, ca.addr_t, ca.addr_e)]
    /\ UNCHANGED <<san, dup, bd, cid>>
    /\ UNCHANGED service

NextChoose ==
    ChooseSanitize \/ ChooseSentinel \/ ChooseLocality \/ ChooseMarkers \/ ChooseAssemble

SpecChoose == InitChoose /\ [][NextChoose]_vars

----------------------------------------------------------------------------
\* The marker loop of choose_address (lines 204-241) under every order of the
\* list of line 205, next to the loop as it is written
Orders ==
    {o \in [1..Len(possible_markers) -> {possible_markers[i] : i \in 1..Len(possible_markers)}] :
        \A i, j \in 1..Len(possible_markers) : i # j => o[i] # o[j]}

InitOrder ==
    /\ ca \in {[pc |-> "sanitized", addr_t |-> sanitize_addr(a), addr_e |-> sanitize_addr(b),
                order |-> o, markers |-> <<>>, result |-> None,
                ordered_markers |-> <<>>, ordered_result |-> None] :
               a \in CaTesseract, b \in CaEasyocr, o \in Orders}
    /\ san = Idle /\ dup = Idle /\ bd = Idle /\ cid = Idle
    /\ ServiceIdle

\* lines 190-247 as written
ReconcileAsCoded ==
    /\ ca.pc = "sanitized"
    /\ ca' = [ca EXCEPT !.pc = "coded",
                        !.markers = collect_markers(ca.addr_t, ca.addr_e, 1),
                        !.result = IF both_empty(ca.addr_t, ca.addr_e) THEN <<ZERO>>
                                   ELSE build_address(ca.addr_t, ca.addr_e)]
    /\ UNCHANGED <<san, dup, bd, cid>>
    /\ UNCHANGED service

\* lines 190-247 with the glyphs of line 205 listed as ca.order
ReconcileInOrder ==
    /\ ca.pc = "coded"
    /\ Let(collect_markers_in(ca.order, ca.addr_t, ca.addr_e, 1),
           LAMBDA markers :
              ca' = [ca EXCEPT !.pc = "ordered",
                               !.ordered_markers = markers,
                               !.ordered_result =
                                   IF both_empty(ca.addr_t, ca.addr_e) THEN <<ZERO>>
                                   ELSE Let(choose_city(ca.addr_t, ca.addr_e),
                                            LAMBDA city :
                                               assemble(choose_area(ca.addr_t, ca.addr_e, city),
                                                        city, markers, ca.addr_t, ca.addr_e))])
    /\ UNCHANGED <<san, dup, bd, cid>>
    /\ UNCHANGED service

NextOrder == ReconcileAsCoded \/ ReconcileInOrder

SpecOrder == InitOrder /\ [][NextOrder]_vars

(***************************************************************************)
(* Field orchestrator and service boundary (core.py 32-197, main.py 11-21) *)
(* One request is followed statement by statement.  What the environment   *)
(* decides (the upload, what each OCR call reads, whether a call raises)   *)
(* is chosen by the action that makes the call.                            *)
(***************************************************************************)
\* the str "0"
STR_ZERO == <<ZERO>>

\* max(o_id, key=len): the first of the longest strings
longest(o_id) ==
    o_id[Min({i \in 1..Len(o_id) : \A j \in 1..Len(o_id) : Len(o_id[j]) <= Len(o_id[i])})]

\* lines 115-120 and 151-156
read_id(o_id) ==
    IF Len(o_id) = 1 THEN o_id[1] ELSE IF Len(o_id) = 0 THEN STR_ZERO ELSE longest(o_id)

\* ' '.join(d[2:]) if len(d) > 2 else ' '.join(d)
address_fragments(d) == IF Len(d) > 2 THEN join(<<SP>>, From(d, 2)) ELSE join(<<SP>>, d)

\* [x.strip() for x in splited if x.strip()]
RECURSIVE stripped_lines(_)
stripped_lines(splited) ==
    IF splited = <<>> THEN <<>>
    ELSE (IF strip(Head(splited)) # <<>> THEN <<strip(Head(splited))>> ELSE <<>>)
         \o stripped_lines(Tail(splited))

\* lines 164-169: every Arabic-Indic digit and punctuation character removed
RECURSIVE drop_digits_punct(_)
drop_digits_punct(name) ==
    IF name = <<>> THEN <<>>
    ELSE (IF IsArabicDigit(Head(name)) \/ IsPunct(Head(name)) THEN <<>> ELSE <<Head(name)>>)
         \o drop_digits_punct(Tail(name))

\* line 173: [ ] and ' removed
RECURSIVE drop_brackets(_)
drop_brackets(address) ==
    IF address = <<>> THEN <<>>
    ELSE (IF Head(address) \in {91, 93, 39} THEN <<>> ELSE <<Head(address)>>)
         \o drop_brackets(Tail(address))

\* the strict comparison a slip would write at line 180
name_split_failed_strict(f_parts, s_parts) == Len(f_parts) > 3 \/ Len(s_parts) < 1

\* lines 178-181
name_split_failed(f_parts, s_parts) == Len(f_parts) > 3 \/ Len(s_parts) <= 1

\* lines 33-40; id and birthdate hold a str or an int's numeral
new_data ==
    [first_name |-> STR_ZERO, seconed_name |-> STR_ZERO, address |-> STR_ZERO,
     id |-> STR_ZERO, birthdate |-> STR_ZERO, error |-> 0]

\* lines 192-197; the message is the statement that raised
fault_record(e) == [id |-> STR_ZERO, error |-> 1, birthdate |-> STR_ZERO, message |-> e]

\* the statements of process_image that call into a library or a helper
RaisingSteps ==
    {"load", "preprocess", "tesseract", "easyocr", "branch", "full_fields", "full_id",
     "degraded_fields", "degraded_id", "state_check", "clean_fields", "name_checks",
     "clean_id", "birthdate"}

\* a try block that opens only after the image is loaded
in_try_after_load(step) == step \in RaisingSteps \ {"load"}

\* lines 42-188: the statement lies inside the try block
in_try(step) == step \in RaisingSteps

----------------------------------------------------------------------------
\* what the engines can read
MaxFragments == 3

ALEF == <<1575>>
NASR_M_5 == <<1606, 1589, 1585, SP, MEEM, SP, 1637>>
QENA == <<1602, 1606, 1575>>

\* given names of one word, of four words, and of four tokens one of which
\* is punctuation
FirstNames == {ALEF, <<1575, SP, 1576, SP, 1580, SP, 1583>>, <<1575, SP, 1576, SP, 1580, SP, 46>>}

\* family names of two words, of one word, and of one word and a digit
SecondNames == {<<1575, SP, 1576>>, ALEF, <<1575, SP, 1633>>}

\* text.split('\n') of the general engine: the 8-line layout, and reads of
\* 1, 3 and 7 lines
FullTexts ==
    {<<f, <<>>, n, <<>>, a, <<>>, c, <<>>>> :
        f \in FirstNames, n \in SecondNames, a \in {<<>>, NASR_M_5}, c \in {<<>>, QENA}}

DegradedTexts ==
    {<<(<<>>)>>, <<ALEF, <<1575, SP, 1576>>, NASR_M_5>>,
     <<ALEF, <<>>, <<1575, SP, 1576>>, <<>>, NASR_M_5, <<>>, QENA>>}

TextSamples == FullTexts \cup DegradedTexts

\* the fragments of the deep engine
Fragments == {ALEF, <<1575, SP, 1576>>, <<1606, 1589, 1585, SP, QAF, 1633, SP, 1606, 1589, 1585>>}

\* the identifier region: nothing, a 14-digit identifier, a short read, and
\* two reads of which the longer holds two digit groups in reverse order
IdReads ==
    {<<>>,
     <<(<<1634, 1641, 1632, 1632, 1633, 1632, 1633, 1632, 1633, 1634, 1635, 1636, 1637, 1638>>)>>,
     <<(<<1633, 1634>>)>>,
     <<(<<1633, 1634>>), (<<1632, 1634, 1634, 1641, SP, 1635, 1632, 1632>>)>>}

----------------------------------------------------------------------------
InitService ==
    /\ pc = "request" /\ ocr = [splited |-> <<>>, d_text_region |-> <<>>, o_id |-> <<>>]
    /\ state = 0 /\ data = Idle /\ fault = "none" /\ ret = Idle /\ resp = Idle
    /\ san = Idle /\ dup = Idle /\ bd = Idle /\ cid = Idle /\ ca = Idle

\* main.py 13-14: an upload that is not an image is refused
Request ==
    /\ pc = "request"
    /\ \E is_image \in BOOLEAN :
          IF is_image THEN pc' = "read" /\ UNCHANGED resp
          ELSE pc' = "responded" /\ resp' = [status |-> 400]
    /\ UNCHANGED <<ocr, state, data, fault, ret, harness>>

\* main.py 17: await file.read(), which may raise
ReadUpload ==
    /\ pc = "read"
    /\ \E ok \in BOOLEAN :
          IF ok THEN pc' = "init" /\ UNCHANGED fault
          ELSE pc' = "propagate" /\ fault' = "read"
    /\ UNCHANGED <<ocr, state, data, ret, resp, harness>>

\* core.py 33-40
InitData ==
    /\ pc = "init"
    /\ data' = new_data
    /\ pc' = "load"
    /\ UNCHANGED <<ocr, state, fault, ret, resp, harness>>

\* core.py 44-55
LoadImage ==
    /\ pc = "load"
    /\ pc' = "preprocess"
    /\ UNCHANGED <<ocr, state, data, fault, ret, resp, harness>>

\* core.py 58-77
Preprocess ==
    /\ pc = "preprocess"
    /\ pc' = "tesseract"
    /\ UNCHANGED <<ocr, state, data, fault, ret, resp, harness>>

\* core.py 80-81
ReadTesseract ==
    /\ pc = "tesseract"
    /\ \E t \in TextSamples : ocr' = [ocr EXCEPT !.splited = t]
    /\ pc' = "easyocr"
    /\ UNCHANGED <<state, data, fault, ret, resp, harness>>

\* core.py 84
ReadEasyocr ==
    /\ pc = "easyocr"
    /\ \E d \in Lists(Fragments, MaxFragments) : ocr' = [ocr EXCEPT !.d_text_region = d]
    /\ pc' = "branch"
    /\ UNCHANGED <<state, data, fault, ret, resp, harness>>

\* core.py 86-90 and 122-124
Branch ==
    /\ pc = "branch"
    /\ IF Len(ocr.splited) = 8
       THEN state' = 1 /\ pc' = "full_fields"
       ELSE state' = 2 /\ pc' = "degraded_fields"
    /\ UNCHANGED <<ocr, data, fault, ret, resp, harness>>

\* core.py 91-103
FullFields ==
    /\ pc = "full_fields"
    /\ LET splited == ocr.splited
           address_tesseract == splited[5] \o <<SP>> \o splited[7]
           address_easyocr == address_fragments(ocr.d_text_region)
           address == remove_cross_line_duplicates(
                          choose_address(address_tesseract, address_easyocr))
       IN data' = [data EXCEPT !.first_name = splited[1], !.seconed_name = splited[3],
                               !.address = address]
    /\ pc' = "full_id"
    /\ UNCHANGED <<ocr, state, fault, ret, resp, harness>>

\* core.py 106-120
FullId ==
    /\ pc = "full_id"
    /\ \E o_id \in IdReads :
          /\ ocr' = [ocr EXCEPT !.o_id = o_id]
          /\ data' = [data EXCEPT !.id = read_id(o_id)]
    /\ pc' = "state_check"
    /\ UNCHANGED <<state, fault, ret, resp, harness>>

\* core.py 126-143
DegradedFields ==
    /\ pc = "degraded_fields"
    /\ LET d == ocr.d_text_region
           t_lines == stripped_lines(ocr.splited)
           address_tesseract == IF Len(t_lines) > 2 THEN join(<<SP>>, From(t_lines, 2))
                                ELSE <<>>
       IN IF d # <<>>
          THEN data' = [data EXCEPT
                          !.first_name = d[1],
                          !.seconed_name = IF Len(d) > 1 THEN d[2] ELSE STR_ZERO,
                          !.address = remove_cross_line_duplicates(
                                          choose_address(address_tesseract,
                                                         address_fragments(d)))]
          ELSE UNCHANGED data
    /\ pc' = "degraded_id"
    /\ UNCHANGED <<ocr, state, fault, ret, resp, harness>>

\* core.py 145-156
DegradedId ==
    /\ pc = "degraded_id"
    /\ \E o_id \in IdReads :
          /\ ocr' = [ocr EXCEPT !.o_id = o_id]
          /\ IF o_id = <<>> /\ ocr.d_text_region = <<>>
             THEN state' = 4 /\ data' = [data EXCEPT !.error = 1]
             ELSE state' = state /\ data' = [data EXCEPT !.id = read_id(o_id)]
    /\ pc' = "state_check"
    /\ UNCHANGED <<fault, ret, resp, harness>>

\* core.py 158-159
StateCheck ==
    /\ pc = "state_check"
    /\ data' = IF state = 4 THEN [data EXCEPT !.error = 1] ELSE data
    /\ pc' = "clean_fields"
    /\ UNCHANGED <<ocr, state, fault, ret, resp, harness>>

\* core.py 164-173
CleanFields ==
    /\ pc = "clean_fields"
    /\ data' = [data EXCEPT !.first_name = drop_digits_punct(@),
                            !.seconed_name = drop_digits_punct(@),
                            !.address = drop_brackets(@)]
    /\ pc' = "name_checks"
    /\ UNCHANGED <<ocr, state, fault, ret, resp, harness>>

\* core.py 176-181
NameChecks ==
    /\ pc = "name_checks"
    /\ data' = IF name_split_failed(split(data.first_name), split(data.seconed_name))
               THEN [data EXCEPT !.error = 1] ELSE data
    /\ pc' = "clean_id"
    /\ UNCHANGED <<ocr, state, fault, ret, resp, harness>>

\* core.py 184
CleanIdentifier ==
    /\ pc = "clean_id"
    /\ data' = [data EXCEPT !.id = clean_id(@)]
    /\ pc' = "birthdate"
    /\ UNCHANGED <<ocr, state, fault, ret, resp, harness>>

\* core.py 186; str(data["id"]) is the int's numeral
Birthdate ==
    /\ pc = "birthdate"
    /\ \E now_year \in NowYears :
          data' = [data EXCEPT !.birthdate = extract_birthdate_from_id(data.id, now_year)]
    /\ pc' = "return"
    /\ UNCHANGED <<ocr, state, fault, ret, resp, harness>>

\* core.py 188
Return ==
    /\ pc = "return"
    /\ ret' = data
    /\ pc' = "returned"
    /\ UNCHANGED <<ocr, state, data, fault, resp, harness>>

\* an exception leaves the current statement of process_image
Raise ==
    /\ pc \in RaisingSteps
    /\ fault' = pc
    /\ pc' = IF in_try(pc) THEN "except" ELSE "propagate"
    /\ UNCHANGED <<ocr, state, data, ret, resp, harness>>

\* core.py 190-197
Except ==
    /\ pc = "except"
    /\ ret' = fault_record(fault)
    /\ pc' = "returned"
    /\ UNCHANGED <<ocr, state, data, fault, resp, harness>>

\* main.py 18-19
AnalyzeReturn ==
    /\ pc = "returned"
    /\ resp' = [status |-> 200, body |-> ret]
    /\ pc' = "responded"
    /\ UNCHANGED <<ocr, state, data, fault, ret, harness>>

\* main.py 20-21
AnalyzeExcept ==
    /\ pc = "propagate"
    /\ resp' = [status |-> 500, detail |-> fault]
    /\ pc' = "responded"
    /\ UNCHANGED <<ocr, state, data, fault, ret, harness>>

Next ==
    \/ Request \/ ReadUpload \/ InitData \/ LoadImage \/ Preprocess \/ ReadTesseract
    \/ ReadEasyocr \/ Branch \/ FullFields \/ FullId \/ DegradedFields \/ DegradedId
    \/ StateCheck \/ CleanFields \/ NameChecks \/ CleanIdentifier \/ Birthdate \/ Return
    \/ Raise \/ Except \/ AnalyzeReturn \/ AnalyzeExcept

Spec == InitService /\ [][Next]_vars

(***************************************************************************)
(* Properties                                                              *)
(***************************************************************************)
\* the tokens the collapser works on
TokensOf(address) == re_split_ws(separate_dashes(address, 1))

\* the values the collapser compares: every regular word and every
\* marker-number pair, fused or space-separated, of a token list, in order
ValuesOf(tokens) == [j \in 1..Len(track(tokens, 1)) |-> track(tokens, 1)[j].key]

\* how often v occurs in the list l
Count(l, v) == Cardinality({j \in 1..Len(l) : l[j] = v})

NoRepeatedValue(tokens) == \A j \in 1..Len(ValuesOf(tokens)) : Count(ValuesOf(tokens), ValuesOf(tokens)[j]) = 1

\* a is b with some elements left out
RECURSIVE IsSubsequence(_, _)
IsSubsequence(a, b) ==
    IF a = <<>> THEN TRUE
    ELSE IF b = <<>> THEN FALSE
    ELSE IF Head(a) = Head(b) THEN IsSubsequence(Tail(a), Tail(b))
    ELSE IsSubsequence(a, Tail(b))

\* C1: the duplicate collapser is idempotent: collapsing an address that was
\* already collapsed changes nothing.
C1_CollapseIdempotent == dup.pc = "twice" => dup.twice = dup.once

\* C2: on an address in which no regular word and no marker-number pair
\* occurs more than once, the collapser returns the address unchanged,
\* dash-before-marker tokens and spacing included.
C2_NoOpWithoutDuplicates ==
    (dup.pc = "once" /\ NoRepeatedValue(TokensOf(dup.address))) => dup.once = dup.address

\* C3: in the collapsed address no regular word and no marker-number pair
\* occurs more than once, every value repeated in the input survives exactly
\* once, and the surviving tokens keep their order.
C3_CollapsedHasNoDuplicates ==
    dup.pc = "once" =>
        /\ NoRepeatedValue(re_split_ws(dup.once))
        /\ \A j \in 1..Len(ValuesOf(TokensOf(dup.address))) :
               Count(ValuesOf(re_split_ws(dup.once)), ValuesOf(TokensOf(dup.address))[j]) = 1
        /\ IsSubsequence(re_split_ws(dup.once), TokensOf(dup.address))

\* the calendar as the claims state it
MonthLengths == <<31, 28, 31, 30, 31, 30, 31, 31, 30, 31, 30, 31>>

LeapYear(y) == (y % 400 = 0) \/ (y % 4 = 0 /\ y % 100 # 0)

ValidCalendarDate(y, m, d) ==
    /\ m \in 1..12
    /\ d >= 1
    /\ d <= (IF m = 2 /\ LeapYear(y) THEN 29 ELSE MonthLengths[m])

\* the decimal digit characters of n, most significant first, k of them
Digits(n, k) == [i \in 1..k |-> 48 + ((n \div (10 ^ (k - i))) % 10)]

\* YYYY-MM-DD
IsoDate(y, m, d) == Digits(y, 4) \o <<45>> \o Digits(m, 2) \o <<45>> \o Digits(d, 2)

\* the identifier's digit string, in Western digits
DigitString(id_value) ==
    LET w == to_western_digits(id_value)
    IN [j \in 1..Cardinality({i \in 1..Len(w) : IsWesternDigit(w[i])}) |->
          w[CHOOSE i \in 1..Len(w) :
                /\ IsWesternDigit(w[i])
                /\ Cardinality({h \in 1..i : IsWesternDigit(w[h])}) = j]]

\* the number written by the two digits of ds at the 0-based offset i
TwoDigits(ds, i) == 10 * (ds[i + 1] - 48) + (ds[i + 2] - 48)

\* C4: an identifier of exactly 6 digits yymmdd that form a valid date gives
\* the ISO date, in 2000 + yy when yy is at most the current two-digit year
\* and in 1900 + yy otherwise.
C4_LegacySixDigits ==
    LET ds == DigitString(bd.id_value)
        yy == TwoDigits(ds, 0)
        year == (IF yy <= bd.now_year % 100 THEN 2000 ELSE 1900) + yy
    IN (bd.pc = "done" /\ Len(ds) = 6
          /\ ValidCalendarDate(year, TwoDigits(ds, 2), TwoDigits(ds, 4)))
       => bd.birthdate = IsoDate(year, TwoDigits(ds, 2), TwoDigits(ds, 4))

\* the identifier carries a century marker: 7 digits or more, the first 2 or 3
CenturyMarked(id_value) ==
    Len(DigitString(id_value)) >= 7 /\ DigitString(id_value)[1] \in {50, 51}

\* C5: on a century-marked identifier the result is the ISO date of year
\* (1900 for a leading 2, 2000 for a leading 3) + digits[1:3], month
\* digits[3:5], day digits[5:7] when that is a calendar date, the sentinel
\* "0" otherwise; no exception leaves the call.
C5_CenturyMarkedBirthdate ==
    LET ds == DigitString(bd.id_value)
        year == (IF ds[1] = 50 THEN 1900 ELSE 2000) + TwoDigits(ds, 1)
        month == TwoDigits(ds, 3)
        day == TwoDigits(ds, 5)
    IN (bd.pc = "done" /\ CenturyMarked(bd.id_value)) =>
          /\ bd.birthdate # Raised
          /\ bd.birthdate = IF ValidCalendarDate(year, month, day)
                            THEN IsoDate(year, month, day) ELSE <<48>>

\* a leap day of 2000 is derived from a century-marked identifier
C5_Witness ==
    /\ bd.pc = "done" /\ CenturyMarked(bd.id_value)
    /\ bd.birthdate = <<50, 48, 48, 48, 45, 48, 50, 45, 50, 57>>

\* the characters clean_id deletes before it looks for digit runs
LetterOrPunctuation(c) == IsArLetter(c) \/ IsPunct(c)

\* the Arabic-Indic digit groups of s: its maximal runs of Arabic-Indic
\* digits, read in s as it is or (stripped) in s without its letters and
\* punctuation; cur is the run being read
RECURSIVE GroupsFrom(_, _, _)
GroupsFrom(s, cur, stripped) ==
    LET close == IF cur = <<>> THEN <<>> ELSE <<cur>>
    IN IF s = <<>> THEN close
       ELSE IF stripped /\ LetterOrPunctuation(Head(s)) THEN GroupsFrom(Tail(s), cur, stripped)
       ELSE IF IsArabicDigit(Head(s)) THEN GroupsFrom(Tail(s), cur \o <<Head(s)>>, stripped)
       ELSE close \o GroupsFrom(Tail(s), <<>>, stripped)

RawGroups(s) == GroupsFrom(s, <<>>, FALSE)

StrippedGroups(s) == GroupsFrom(s, <<>>, TRUE)

\* the numeral of the integer written by the groups taken last to first
ReversedNumeral(groups) ==
    int(to_western_digits(join(<<>>, [i \in 1..Len(groups) |-> groups[Len(groups) + 1 - i]])))

\* C6 as stated: the Arabic-Indic digit groups of the raw string, separated
\* by any non-digit characters, are concatenated last to first.
C6_ReversesRawGroups ==
    (/\ cid.pc = "done"
     /\ RawGroups(cid.id_val) # <<>>
     /\ \A i \in 1..Len(cid.id_val) : ~IsWesternDigit(cid.id_val[i]))
    => cid.id = ReversedNumeral(RawGroups(cid.id_val))

\* C6 amended: the groups are those of the string left after the listed
\* letters and the punctuation are deleted, so groups that only such
\* characters separate count as one group.
C6_ReversesStrippedGroups ==
    (cid.pc = "done" /\ StrippedGroups(cid.id_val) # <<>>)
    => cid.id = ReversedNumeral(StrippedGroups(cid.id_val))

\* two different groups were swapped
C6_Witness ==
    LET groups == StrippedGroups(cid.id_val)
    IN /\ cid.pc = "done"
       /\ Len(groups) = 2 /\ groups[1] # groups[2]
       /\ cid.id = to_western_digits(groups[2] \o groups[1])

\* C7: sanitize_addr is idempotent.
C7_SanitizeIdempotent == san.pc = "twice" => san.twice = san.once

\* a string with garbage in it was sanitized to a non-empty string, twice
C7_Witness ==
    /\ san.pc = "twice" /\ san.sval # None
    /\ san.once # san.sval /\ san.once # <<>>

\* nothing of s survives sanitizing
SanitizesToEmpty(s) ==
    s = None \/ \A i \in 1..Len(s) :
                    \/ IsSpace(s[i]) \/ IsLatin(s[i]) \/ s[i] \in {1567, 63, 62, 60}
                    \/ ~(IsArabic(s[i]) \/ IsDigit(s[i]) \/ s[i] \in {45, 1600})

\* C8: when both sources sanitize to the empty string choose_address returns
\* "0", and it runs no locality or marker extraction on the way.
C8_SentinelWhenBothEmpty ==
    (SanitizesToEmpty(ca.addr_tesseract) /\ SanitizesToEmpty(ca.addr_easyocr)) =>
        /\ ca.pc \notin {"locality", "markers"}
        /\ ca.ran = {}
        /\ ca.pc = "returned" => ca.result = <<48>>

\* two sources that hold only noise gave the sentinel
C8_Witness ==
    /\ ca.pc = "returned" /\ ca.result = <<48>>
    /\ ca.addr_tesseract # None /\ ca.addr_tesseract # <<>> /\ ca.addr_easyocr # <<>>

\* the number of whitespace-separated words of s
WordCount(s) ==
    Cardinality({i \in 1..Len(s) : ~IsSpace(s[i]) /\ (i = 1 \/ IsSpace(s[i - 1]))})

\* the read is degraded and neither the identifier region nor the deep engine
\* gave anything
FailedRead == Len(ocr.splited) # 8 /\ ocr.o_id = <<>> /\ ocr.d_text_region = <<>>

\* the record process_image built has been returned
ReturnedRecord == pc \in {"returned", "responded"} /\ fault = "none" /\ ret # Idle

\* a record is under construction or has been returned
HasRecord == pc \notin {"request", "read", "init"} /\ data # Idle

\* C9: without a fault, the error flag of the returned record is 1 exactly
\* when the read failed, or the cleaned given name has more than 3 words, or
\* the cleaned family name has at most 1 word; and no step of process_image
\* takes the flag from 1 back to 0.
C9_ErrorFlag ==
    /\ [](ReturnedRecord =>
             (ret.error = 1 <=>
                 \/ FailedRead
                 \/ WordCount(ret.first_name) > 3
                 \/ WordCount(ret.seconed_name) <= 1))
    /\ [][(HasRecord /\ data.error = 1) => data'.error = 1]_vars

\* a record with the address "0" and the birth date "0" was returned with the
\* error flag 0
C9_Witness ==
    /\ ReturnedRecord
    /\ ret.address = <<48>> /\ ret.birthdate = <<48>> /\ ret.error = 0

\* a statement of process_image raised
FaultInProcessImage == fault \notin {"none", "read"}

\* C10: a fault in any statement of process_image is caught: the call returns
\* the record  id 0, error 1, birthdate "0", message  and not the record under
\* construction, and the request is answered with that record.
C10_FaultsAreCaught ==
    FaultInProcessImage =>
        /\ pc # "propagate"
        /\ pc \in {"returned", "responded"} =>
              /\ DOMAIN ret = {"id", "error", "birthdate", "message"}
              /\ ret.id = <<48>> /\ ret.error = 1 /\ ret.birthdate = <<48>>
              /\ ret # data
        /\ pc = "responded" => resp = [status |-> 200, body |-> ret]

\* the identifier read raised after the names and the address were stored,
\* and the fault record was returned
C10_Witness ==
    /\ pc = "returned" /\ fault = "full_id"
    /\ data.first_name # <<48>> /\ data.address # <<48>>
    /\ "message" \in DOMAIN ret /\ "address" \notin DOMAIN ret

----------------------------------------------------------------------------
\* the number the items keep for a glyph, empty when they keep none
NumberFor(items, glyph) ==
    IF \E i \in 1..Len(items) : items[i][1] = glyph
    THEN items[CHOOSE i \in 1..Len(items) : items[i][1] = glyph][2]
    ELSE <<>>

\* the items listed as an order of the glyphs gives them
RECURSIVE ItemsInOrder(_, _, _)
ItemsInOrder(items, order, k) ==
    IF k > Len(order) THEN <<>>
    ELSE (IF NumberFor(items, order[k]) # <<>>
          THEN <<(<<order[k], NumberFor(items, order[k])>>)>> ELSE <<>>)
         \o ItemsInOrder(items, order, k + 1)

OrderChecked == ca.pc = "ordered"

----------------------------------------------------------------------------
\* what follows place i of a string, past the spaces
AfterSpaces(s, i) ==
    From(From(s, i + 1), SpanLen(From(s, i + 1), LAMBDA c : c = SP) + 1)

\* the places of a string where a glyph stands as a marker (at the start or
\* after a character that is no word character) and a number follows it, with
\* or without spaces between them
MarkerPlaces(s, glyph) ==
    {i \in 1..Len(s) :
        /\ s[i] = glyph
        /\ i = 1 \/ ~IsWordChar(s[i - 1])
        /\ AfterSpaces(s, i) # <<>>
        /\ IsDigit(AfterSpaces(s, i)[1])}

\* the number that follows the marker at place i
NumberAt(s, i) == Slice(AfterSpaces(s, i), 1, SpanLen(AfterSpaces(s, i), IsDigit))

AddressReturned == ca.pc = "returned" /\ ca.result # <<ZERO>>

\* C12: in every address choose_address returns, other than "0", each marker
\* glyph is followed by a number at most once, and that number is 1 to 3
\* digits long and written in Arabic-Indic digits
C12_OnePairPerGlyph ==
    AddressReturned =>
        \A glyph \in {MEEM, QAF, KAF} :
            /\ Cardinality(MarkerPlaces(ca.result, glyph)) <= 1
            /\ \A i \in MarkerPlaces(ca.result, glyph) :
                  /\ Len(NumberAt(ca.result, i)) \in 1..3
                  /\ \A k \in 1..Len(NumberAt(ca.result, i)) :
                        IsArabicDigit(NumberAt(ca.result, i)[k])

====
